---- MODULE Spec2Model ----
(***************************************************************************)
(* Model of app.py: the cleaning pipelines of the emigration dashboard.    *)
(*                                                                         *)
(* Text is a sequence of one-character strings, so that trimming,          *)
(* substring search, anchored matching and digit extraction are computed   *)
(* character by character as pandas / re compute them.                     *)
(* Numbers are fixed-point: a numeric cell holds its value in hundredths   *)
(* (Scale), so 0.71 is 71 and the integer 5 is 500.                        *)
(***************************************************************************)
EXTENDS Integers, Sequences, FiniteSets, TLC

\* pc: the tab main is in; frame: what the current display_* call (or pass of
\* the sheet loop) has produced; sheet_names, sheet_i: the loop over the
\* sheets of the place-of-origin workbook; reported: an earlier sheet of it
\* left an error or a warning on the page
VARIABLES pc, frame, sheet_names, sheet_i, reported

vars == <<pc, frame, sheet_names, sheet_i, reported>>

-----------------------------------------------------------------------------
(* Characters and strings                                                  *)

DigitChars == <<"0","1","2","3","4","5","6","7","8","9">>
LowerChars == <<"a","b","c","d","e","f","g","h","i","j","k","l","m","n","o","p","q","r","s","t","u","v","w","x","y","z">>
UpperChars == <<"A","B","C","D","E","F","G","H","I","J","K","L","M","N","O","P","Q","R","S","T","U","V","W","X","Y","Z">>

Range(f) == {f[i] : i \in DOMAIN f}

IsDigit(c) == c \in Range(DigitChars)
DigitVal(c) == (CHOOSE i \in DOMAIN DigitChars : DigitChars[i] = c) - 1
IsSpace(c) == c = " "

\* str.upper() on one character
UpperChar(c) ==
    IF c \in Range(LowerChars)
    THEN UpperChars[CHOOSE i \in DOMAIN LowerChars : LowerChars[i] = c]
    ELSE c

StrUpper(s) == [i \in DOMAIN s |-> UpperChar(s[i])]

\* str.strip(): leading and trailing whitespace removed
RECURSIVE LStrip(_)
LStrip(s) == IF s # <<>> /\ IsSpace(Head(s)) THEN LStrip(Tail(s)) ELSE s

RECURSIVE RStrip(_)
RStrip(s) ==
    IF s # <<>> /\ IsSpace(s[Len(s)]) THEN RStrip(SubSeq(s, 1, Len(s) - 1)) ELSE s

Strip(s) == RStrip(LStrip(s))

\* s[from..] begins with t
PrefixAt(s, t, from) ==
    /\ from + Len(t) - 1 <= Len(s)
    /\ \A k \in 1..Len(t) : s[from + k - 1] = t[k]

StartsWith(s, t) == PrefixAt(s, t, 1)

\* re.search of a literal token
Contains(s, t) == \E from \in 1..(Len(s) + 1) : PrefixAt(s, t, from)

\* str.contains("A|B|C", case=False): some alternative occurs anywhere in s
ContainsAnyCI(s, tokens) == \E t \in tokens : Contains(StrUpper(s), StrUpper(t))

\* str(int) for a non-negative integer
RECURSIVE NatToStr(_)
NatToStr(n) ==
    IF n < 10 THEN <<DigitChars[n + 1]>>
    ELSE NatToStr(n \div 10) \o <<DigitChars[(n % 10) + 1]>>

\* the value of a non-empty string of digits
RECURSIVE DigitsVal(_)
DigitsVal(s) ==
    IF s = <<>> THEN 0 ELSE DigitsVal(SubSeq(s, 1, Len(s) - 1)) * 10 + DigitVal(s[Len(s)])

AllDigits(s) == \A i \in DOMAIN s : IsDigit(s[i])

\* the longest run of digits beginning at s[from]  (greedy \d+)
RECURSIVE DigitRun(_, _)
DigitRun(s, from) ==
    IF from <= Len(s) /\ IsDigit(s[from])
    THEN <<s[from]>> \o DigitRun(s, from + 1)
    ELSE <<>>

-----------------------------------------------------------------------------
(* Cells: a missing cell (NaN), a number (in hundredths) or a text         *)

Scale == 100

NaN == [t |-> "nan", n |-> 0, s |-> <<>>]
Num(h) == [t |-> "num", n |-> h, s |-> <<>>]
IntCell(k) == Num(k * Scale)
Txt(s) == [t |-> "str", n |-> 0, s |-> s]

IsNa(c) == c.t = "nan"
NotNa(c) == ~IsNa(c)

\* str(x) of one cell of an object column: NaN -> "nan", an int -> its digits
NumToStr(h) ==
    LET a == IF h < 0 THEN -h ELSE h
        sign == IF h < 0 THEN <<"-">> ELSE <<>>
        frac == a % Scale
    IN  IF frac = 0 THEN sign \o NatToStr(a \div Scale)
        ELSE sign \o NatToStr(a \div Scale) \o <<".">>
                  \o (IF frac % 10 = 0 THEN NatToStr(frac \div 10)
                      ELSE <<DigitChars[(frac \div 10) + 1], DigitChars[(frac % 10) + 1]>>)

AstypeStr(c) ==
    CASE c.t = "nan" -> Txt(<<"n","a","n">>)
      [] c.t = "num" -> Txt(NumToStr(c.n))
      [] OTHER -> c

\* Series.str.strip(): text is trimmed, a non-text element becomes NaN
StrStrip(c) == IF c.t = "str" THEN Txt(Strip(c.s)) ELSE NaN

\* the number a text denotes: [sign] digits [. digits], surrounding blanks
\* ignored; NoParse when the text is no number
NoParse == [ok |-> FALSE, n |-> 0]

ParseUnsigned(s) ==
    LET ip == DigitRun(s, 1)
        rest == SubSeq(s, Len(ip) + 1, Len(s))
    IN  IF ip = <<>> THEN NoParse
        ELSE IF rest = <<>> THEN [ok |-> TRUE, n |-> DigitsVal(ip) * Scale]
        ELSE IF Head(rest) = "." /\ AllDigits(Tail(rest))
        THEN LET fp == Tail(rest)
                 d1 == IF Len(fp) >= 1 THEN DigitVal(fp[1]) ELSE 0
                 d2 == IF Len(fp) >= 2 THEN DigitVal(fp[2]) ELSE 0
             IN  [ok |-> TRUE, n |-> DigitsVal(ip) * Scale + d1 * 10 + d2]
        ELSE NoParse

ParseNum(s) ==
    LET t == Strip(s)
    IN  IF t = <<>> THEN NoParse
        ELSE IF Head(t) = "-"
        THEN LET r == ParseUnsigned(Tail(t)) IN [ok |-> r.ok, n |-> -r.n]
        ELSE IF Head(t) = "+" THEN ParseUnsigned(Tail(t))
        ELSE ParseUnsigned(t)

\* pd.to_numeric(errors="coerce") on one element
ToNumeric(c) ==
    CASE c.t = "num" -> c
      [] c.t = "str" -> (IF ParseNum(c.s).ok THEN Num(ParseNum(c.s).n) ELSE NaN)
      [] OTHER -> NaN

\* fillna(0)
FillNa(c) == IF IsNa(c) THEN Num(0) ELSE c

\* a variant that rounds to the nearest integer, halves away from zero
TruncIntRounded(h) ==
    IF h >= 0 THEN ((h + Scale \div 2) \div Scale) * Scale
    ELSE -(((Scale \div 2 - h) \div Scale) * Scale)

\* astype(int): truncation toward zero
TruncInt(h) == IF h >= 0 THEN (h \div Scale) * Scale ELSE -(((-h) \div Scale) * Scale)

AstypeInt(c) == IF c.t = "num" THEN Num(TruncInt(c.n)) ELSE c

\* .apply(pd.to_numeric, errors="coerce").fillna(0).astype(int)
CoerceInt(c) == AstypeInt(FillNa(ToNumeric(c)))

\* .apply(pd.to_numeric, errors="coerce").fillna(0)
CoerceFloat(c) == FillNa(ToNumeric(c))

-----------------------------------------------------------------------------
(* Tables (DataFrames): cols is the sequence of column labels (cells: a    *)
(* label read from a sheet is a text or a number), rows the sequence of    *)
(* rows; a row keeps its index label ix and its cells c, one per column    *)

Table(cols, rows) == [cols |-> cols, rows |-> rows]

Row(ix, cells) == [ix |-> ix, c |-> cells]

EmptyFrame == Table(<<>>, <<>>)

\* df.empty
IsEmpty(t) == t.cols = <<>> \/ t.rows = <<>>

\* the positions 1..n that satisfy a test, in order
Positions(n, Keep(_)) == SelectSeq([i \in 1..n |-> i], Keep)

\* the position of the first column with that label; 0 when there is none
ColIdx(t, name) ==
    IF \E i \in DOMAIN t.cols : t.cols[i] = name
    THEN CHOOSE i \in DOMAIN t.cols :
            t.cols[i] = name /\ \A j \in 1..(i - 1) : t.cols[j] # name
    ELSE 0

HasCol(t, name) == ColIdx(t, name) # 0

\* the positions of the columns other than column k
OtherCols(t, k) == Positions(Len(t.cols), LAMBDA j : j # k)

\* df[mask]
FilterRows(t, Keep(_)) == Table(t.cols, SelectSeq(t.rows, Keep))

\* df.iloc[:, idx]
TakeCols(t, idx) ==
    Table([k \in DOMAIN idx |-> t.cols[idx[k]]],
          [r \in DOMAIN t.rows |->
              Row(t.rows[r].ix, [k \in DOMAIN idx |-> t.rows[r].c[idx[k]]])])

\* df.dropna(how="all")
DropNaRows(t) == FilterRows(t, LAMBDA row : \E j \in DOMAIN row.c : NotNa(row.c[j]))

\* df.dropna(axis=1, how="all")
DropNaCols(t) ==
    TakeCols(t, Positions(Len(t.cols),
                          LAMBDA j : \E r \in DOMAIN t.rows : NotNa(t.rows[r].c[j])))

\* df[cols] = df[cols].apply(F) for the columns at the positions in idx
MapCols(t, idx, F(_)) ==
    Table(t.cols,
          [r \in DOMAIN t.rows |->
              Row(t.rows[r].ix,
                  [j \in DOMAIN t.cols |->
                      IF j \in Range(idx) THEN F(t.rows[r].c[j]) ELSE t.rows[r].c[j]])])

\* df.columns = names
SetCols(t, names) == Table(names, t.rows)

\* df.columns = df.columns.map(F)
MapLabels(t, F(_)) == Table([j \in DOMAIN t.cols |-> F(t.cols[j])], t.rows)

\* df[name] = Val(row): the existing column replaced, or a new last column
AddCol(t, name, Val(_)) ==
    IF HasCol(t, name)
    THEN Table(t.cols,
               [r \in DOMAIN t.rows |->
                  Row(t.rows[r].ix,
                      [j \in DOMAIN t.cols |->
                          IF j = ColIdx(t, name) THEN Val(t.rows[r]) ELSE t.rows[r].c[j]])])
    ELSE Table(Append(t.cols, name),
               [r \in DOMAIN t.rows |->
                  Row(t.rows[r].ix, Append(t.rows[r].c, Val(t.rows[r])))])

\* the sum of the number cells of one row at the positions in idx
RECURSIVE SumAt(_, _)
SumAt(cells, idx) ==
    IF idx = <<>> THEN 0
    ELSE (IF cells[Head(idx)].t = "num" THEN cells[Head(idx)].n ELSE 0)
         + SumAt(cells, Tail(idx))

\* a variant that keeps the last row of each key value (keep="last")
DropDuplicatesKeepLast(t, k) ==
    FilterRows(t, LAMBDA row : \A q \in DOMAIN t.rows :
                                  t.rows[q].ix > row.ix => t.rows[q].c[k] # row.c[k])

\* df.drop_duplicates(subset=key): the first row of each key value is kept
DropDuplicates(t, k) ==
    Table(t.cols,
          [p \in DOMAIN Positions(Len(t.rows),
                LAMBDA r : \A q \in 1..(r - 1) : t.rows[q].c[k] # t.rows[r].c[k]) |->
             t.rows[Positions(Len(t.rows),
                LAMBDA r : \A q \in 1..(r - 1) : t.rows[q].c[k] # t.rows[r].c[k])[p]]])

\* One melted record: the id cells of its row, the label of its column, the cell
LongRec(ix, key, var, value) == [ix |-> ix, key |-> key, var |-> var, value |-> value]

\* the records of one value column, in row order
MeltCol(t, ids, j) ==
    [r \in DOMAIN t.rows |->
        LongRec(t.rows[r].ix, [k \in DOMAIN ids |-> t.rows[r].c[ids[k]]],
                t.cols[j], t.rows[r].c[j])]

RECURSIVE MeltCols(_, _, _)
MeltCols(t, ids, vals) ==
    IF vals = <<>> THEN <<>>
    ELSE MeltCol(t, ids, Head(vals)) \o MeltCols(t, ids, Tail(vals))

\* df.melt(id_vars, value_vars, var_name, value_name): column after column;
\* pandas raises ValueError when value_name is already a column label
MeltRaises(t, value_name) == HasCol(t, value_name)

Melt(t, ids, vals) == MeltCols(t, ids, vals)

-----------------------------------------------------------------------------
(* The string literals of app.py, spelled character by character          *)

S_COUNTRY == <<"C","O","U","N","T","R","Y">>
S_YEAR == <<"Y","E","A","R">>
S_TOTAL == <<"T","O","T","A","L">>
S_Total_Emigrants == <<"T","o","t","a","l","_","E","m","i","g","r","a","n","t","s">>
S_ISO3 == <<"I","S","O","3">>
S_MAJOR_OCCUPATION_GROUP == <<"M","A","J","O","R","_","O","C","C","U","P","A","T","I","O","N","_","G","R","O","U","P">>
S_CATEGORY == <<"C","A","T","E","G","O","R","Y">>
S_MALE == <<"M","A","L","E">>
S_FEMALE == <<"F","E","M","A","L","E">>
S_SEX_RATIO == <<"S","E","X","_","R","A","T","I","O">>
S_EDUCATIONAL_ATTAINMENT == <<"E","D","U","C","A","T","I","O","N","A","L","_","A","T","T","A","I","N","M","E","N","T">>
S_USA == <<"U","S","A">>
S_CANADA == <<"C","A","N","A","D","A">>
S_JAPAN == <<"J","A","P","A","N">>
S_AUSTRALIA == <<"A","U","S","T","R","A","L","I","A">>
S_ITALY == <<"I","T","A","L","Y">>
S_NEW_ZEALAND == <<"N","E","W","_","Z","E","A","L","A","N","D">>
S_UNITED_KINGDOM == <<"U","N","I","T","E","D","_","K","I","N","G","D","O","M">>
S_GERMANY == <<"G","E","R","M","A","N","Y">>
S_SOUTH_KOREA == <<"S","O","U","T","H","_","K","O","R","E","A">>
S_SPAIN == <<"S","P","A","I","N">>
S_OTHERS == <<"O","T","H","E","R","S">>
S_Inc_Dec == <<"_","I","n","c","_","D","e","c">>
S_Single == <<"S","i","n","g","l","e">>
S_Married == <<"M","a","r","r","i","e","d">>
S_Widower == <<"W","i","d","o","w","e","r">>
S_Separated == <<"S","e","p","a","r","a","t","e","d">>
S_Divorced == <<"D","i","v","o","r","c","e","d">>
S_Not_Reported == <<"N","o","t","_","R","e","p","o","r","t","e","d">>
S_Year == <<"Y","e","a","r">>
S_Country == <<"C","o","u","n","t","r","y">>
S_Emigrants == <<"E","m","i","g","r","a","n","t","s">>
S_Total == <<"T","o","t","a","l">>
S_Employed == <<"E","m","p","l","o","y","e","d">>
S_Unemployed == <<"U","n","e","m","p","l","o","y","e","d">>
S_UNKNOWN == <<"U","N","K","N","O","W","N">>
S_Average == <<"A","v","e","r","a","g","e">>
S_nan == <<"n","a","n">>
S_Region == <<"R","e","g","i","o","n">>
S_INC == <<"I","N","C">>
S_UNNAMED == <<"U","N","N","A","M","E","D">>
S_Unnamed == <<"U","n","n","a","m","e","d">>
S_REGION == <<"R","E","G","I","O","N">>
S_PROVINCE == <<"P","R","O","V","I","N","C","E">>
S_MUNICIPALITY == <<"M","U","N","I","C","I","P","A","L","I","T","Y">>

\* display_occu_data: the configured group lists
employed ==
    { <<"P","r","o","f","'","l",","," ","T","e","c","h","'","l",","," ","&"," ","R","e","l","a","t","e","d"," ","W","o","r","k","e","r","s">>,
      <<"M","a","n","a","g","e","r","i","a","l",","," ","E","x","e","c","u","t","i","v","e",","," ","a","n","d"," ","A","d","m","i","n","i","s","t","r","a","t","i","v","e"," ","W","o","r","k","e","r","s">>,
      <<"C","l","e","r","i","c","a","l"," ","W","o","r","k","e","r","s">>,
      <<"S","a","l","e","s"," ","W","o","r","k","e","r","s">>,
      <<"S","e","r","v","i","c","e"," ","W","o","r","k","e","r","s">>,
      <<"A","g","r","i",","," ","A","n","i","m","a","l"," ","H","u","s","b","a","n","d","r","y",","," ","F","o","r","e","s","t","r","y"," ","W","o","r","k","e","r","s"," ","&"," ","F","i","s","h","e","r","m","e","n">>,
      <<"P","r","o","d","u","c","t","i","o","n"," ","P","r","o","c","e","s","s",","," ","T","r","a","n","s","p","o","r","t"," ","E","q","u","i","p","m","e","n","t"," ","O","p","e","r","a","t","o","r","s",","," ","&"," ","L","a","b","o","r","e","r","s">>,
      <<"M","e","m","b","e","r","s"," ","o","f"," ","t","h","e"," ","A","r","m","e","d"," ","F","o","r","c","e","s">> }

unemployed ==
    { <<"H","o","u","s","e","w","i","v","e","s">>,
      <<"R","e","t","i","r","e","e","s">>,
      <<"S","t","u","d","e","n","t","s">>,
      <<"M","i","n","o","r","s"," ","(","B","e","l","o","w"," ","7"," ","y","e","a","r","s"," ","o","l","d",")">>,
      <<"O","u","t"," ","o","f"," ","S","c","h","o","o","l"," ","Y","o","u","t","h">>,
      <<"R","e","f","u","g","e","e","s">>,
      <<"N","o"," ","O","c","c","u","p","a","t","i","o","n"," ","R","e","p","o","r","t","e","d">> }


-----------------------------------------------------------------------------
(* What one display_* call leaves behind: the workbook it read (input),    *)
(* the messages it reported, the cleaned table it showed, what the frame   *)
(* that was shown holds when the call ends (df), the table its chart is    *)
(* drawn from (viz) and the melted records (long)                          *)

Blank(ds, sheet, inp) ==
    [ds |-> ds, sheet |-> sheet, input |-> inp,
     raw_err |-> FALSE, err |-> FALSE, warn |-> FALSE, uncaught |-> FALSE,
     shown |-> FALSE, clean |-> EmptyFrame, df |-> EmptyFrame,
     has_viz |-> FALSE, viz |-> EmptyFrame,
     has_long |-> FALSE, long |-> <<>>]

\* pd.read_excel(path, ...): the sheet as a table, or an exception
Workbook(readable, table) == [readable |-> readable, table |-> table]

NoInput == Workbook(FALSE, EmptyFrame)

NoFrame == Blank("none", <<>>, NoInput)

\* Series.str.match(r"^\d{4}$")
IsYearText(c) == c.t = "str" /\ Len(c.s) = 4 /\ AllDigits(c.s)

-----------------------------------------------------------------------------
(* display_age_data                                                        *)

\* lines 78-79: the sheet below the header row, labels as text; nothing else
AgeClean(inp) == MapLabels(inp.table, AstypeStr)

\* a variant without the filter of line 88: every melted record is kept
AgeMeltUnfiltered(df) == Melt(df, <<1>>, OtherCols(df, 1))

\* lines 87-89: melt every column but the first, keep the year-named ones
AgeMelt(df) ==
    LET recs == Melt(df, <<1>>, OtherCols(df, 1))
        years == SelectSeq(recs, LAMBDA r : IsYearText(r.var))
    IN  [i \in DOMAIN years |->
            [years[i] EXCEPT !.var = IntCell(DigitsVal(years[i].var.s))]]

display_age_data(inp) ==
    LET base == [Blank("age", <<>>, inp) EXCEPT !.raw_err = ~inp.readable]
        df == AgeClean(inp)
        shown == [base EXCEPT !.shown = TRUE, !.clean = df, !.df = df]
    IN  IF ~inp.readable THEN [base EXCEPT !.err = TRUE]
        ELSE IF df.cols = <<>> \/ MeltRaises(df, Txt(S_Emigrants))
        THEN [shown EXCEPT !.err = TRUE]
        ELSE [shown EXCEPT !.has_long = TRUE, !.long = AgeMelt(df)]

-----------------------------------------------------------------------------
(* display_country_data                                                    *)

CountryDenylist == {S_TOTAL, S_OTHERS, S_UNKNOWN}

\* lines 175-179: pycountry's lookup, case-insensitive; None when unknown
country_to_iso3(name) ==
    CASE name.t = "str" /\ StrUpper(name.s) = S_USA -> Txt(S_USA)
      [] name.t = "str" /\ StrUpper(name.s) = S_JAPAN -> Txt(<<"J","P","N">>)
      [] name.t = "str" /\ StrUpper(name.s) = S_CANADA -> Txt(<<"C","A","N">>)
      [] OTHER -> NaN

\* lines 151-156: labels as text, empty rows and columns dropped, first column named COUNTRY
CountryLoad(inp) ==
    LET d == DropNaCols(DropNaRows(MapLabels(inp.table, AstypeStr)))
    IN  IF HasCol(d, Txt(S_COUNTRY)) THEN d
        ELSE SetCols(d, [j \in DOMAIN d.cols |-> IF j = 1 THEN Txt(S_COUNTRY) ELSE d.cols[j]])

\* line 160
CountryDenied(c) == c.t = "str" /\ ContainsAnyCI(c.s, CountryDenylist)

\* lines 158-168
CountryClean(d) ==
    LET k == ColIdx(d, Txt(S_COUNTRY))
        d1 == FilterRows(d, LAMBDA row : NotNa(row.c[k]))
        d2 == MapCols(d1, <<k>>, LAMBDA c : StrStrip(AstypeStr(c)))
        d3 == FilterRows(d2, LAMBDA row : ~CountryDenied(row.c[k]))
        numeric_cols == OtherCols(d3, k)
        d4 == MapCols(d3, numeric_cols, CoerceInt)
        d5 == DropDuplicates(d4, k)
    IN  AddCol(d5, Txt(S_Total_Emigrants), LAMBDA row : Num(SumAt(row.c, numeric_cols)))

\* a variant that drops the unmatched countries from df itself
CountryTaggedInPlace(df) ==
    LET d == AddCol(df, Txt(S_ISO3),
                    LAMBDA row : country_to_iso3(row.c[ColIdx(df, Txt(S_COUNTRY))]))
    IN  FilterRows(d, LAMBDA row : NotNa(row.c[ColIdx(d, Txt(S_ISO3))]))

\* line 181: df["ISO3"] = ..., a column added to df itself
CountryTagged(df) ==
    AddCol(df, Txt(S_ISO3), LAMBDA row : country_to_iso3(row.c[ColIdx(df, Txt(S_COUNTRY))]))

\* a variant without line 182: the unmatched countries stay
CountryMapUnfiltered(df) == CountryTagged(df)

\* lines 181-182: df is bound anew to the rows with a code
CountryMap(df) ==
    LET d == CountryTagged(df)
    IN  FilterRows(d, LAMBDA row : NotNa(row.c[ColIdx(d, Txt(S_ISO3))]))

display_country_data(inp) ==
    LET base == [Blank("country", <<>>, inp) EXCEPT !.raw_err = ~inp.readable]
        d == DropNaCols(DropNaRows(inp.table))
        df == CountryClean(CountryLoad(inp))
    IN  IF ~inp.readable \/ d.cols = <<>> THEN [base EXCEPT !.err = TRUE]
        ELSE [base EXCEPT !.shown = TRUE, !.clean = df, !.df = CountryTagged(df),
                          !.has_viz = TRUE, !.viz = CountryMap(df)]

-----------------------------------------------------------------------------
(* display_major_country_data                                              *)

MajorExpected ==
    <<Txt(S_YEAR), Txt(S_USA), Txt(S_CANADA), Txt(S_JAPAN), Txt(S_AUSTRALIA), Txt(S_ITALY),
      Txt(S_NEW_ZEALAND), Txt(S_UNITED_KINGDOM), Txt(S_GERMANY), Txt(S_SOUTH_KOREA),
      Txt(S_SPAIN), Txt(S_OTHERS), Txt(S_TOTAL), Txt(S_Inc_Dec)>>

\* lines 245-255: the canonical names replace the labels when the counts agree
MajorLoad(inp) ==
    LET d == DropNaCols(inp.table)
    IN  DropNaRows(IF Len(d.cols) = Len(MajorExpected) THEN SetCols(d, MajorExpected) ELSE d)

\* lines 256-262
MajorClean(d) ==
    LET k == ColIdx(d, Txt(S_YEAR))
        d1 == FilterRows(d, LAMBDA row : NotNa(row.c[k]))
        d2 == MapCols(d1, <<k>>, LAMBDA c : StrStrip(AstypeStr(c)))
    IN  MapCols(d2, OtherCols(d2, k), CoerceInt)

ExcludeKeywords == {S_TOTAL, S_INC, S_UNNAMED}

\* lines 272-276: any(ex in c.upper() for ex in exclude_keywords)
MajorExcluded(label) == \E ex \in ExcludeKeywords : Contains(StrUpper(label.s), ex)

\* lines 273-284: the column sums of the country columns
MajorTotals(df) ==
    LET k == ColIdx(df, Txt(S_YEAR))
        cc == Positions(Len(df.cols), LAMBDA j : j # k /\ ~MajorExcluded(df.cols[j]))
    IN  Table(<<Txt(S_Country), Txt(S_Total_Emigrants)>>,
              [p \in DOMAIN cc |->
                  Row(p - 1, <<df.cols[cc[p]],
                               Num(SumAt([r \in DOMAIN df.rows |-> df.rows[r].c[cc[p]]],
                                         [r \in DOMAIN df.rows |-> r]))>>)])

\* a variant in which a sheet without a YEAR column gives an empty table and
\* no message
display_major_country_silent(inp) ==
    LET base == Blank("major", <<>>, inp)
        d == MajorLoad(inp)
        df == MajorClean(d)
        shown == [base EXCEPT !.shown = TRUE, !.clean = df, !.df = df]
    IN  IF ~inp.readable THEN [base EXCEPT !.raw_err = TRUE]
        ELSE IF ~HasCol(d, Txt(S_YEAR)) THEN base
        ELSE IF \E j \in DOMAIN df.cols : df.cols[j].t # "str"
        THEN [shown EXCEPT !.err = TRUE]
        ELSE [shown EXCEPT !.has_viz = TRUE, !.viz = MajorTotals(df)]

display_major_country_data(inp) ==
    LET base == Blank("major", <<>>, inp)
        d == MajorLoad(inp)
        df == MajorClean(d)
        shown == [base EXCEPT !.shown = TRUE, !.clean = df, !.df = df]
    IN  IF ~inp.readable THEN [base EXCEPT !.raw_err = TRUE]
        ELSE IF ~HasCol(d, Txt(S_YEAR)) THEN [base EXCEPT !.err = TRUE]
        ELSE IF \E j \in DOMAIN df.cols : df.cols[j].t # "str"
        THEN [shown EXCEPT !.err = TRUE]
        ELSE [shown EXCEPT !.has_viz = TRUE, !.viz = MajorTotals(df)]

-----------------------------------------------------------------------------
(* Shared by the occupation, sex, civil-status and education pipelines     *)

\* a variant that renames only when the counts are equal and keeps every column
LoadExpectedExact(inp, expected) ==
    LET d == DropNaRows(DropNaCols(inp.table))
    IN  IF Len(d.cols) = Len(expected) THEN SetCols(d, expected) ELSE d

\* read_excel(...).dropna(axis=1, how="all").dropna(how="all"), then
\* if len(df.columns) >= len(expected_cols): the leading columns, renamed
LoadExpected(inp, expected) ==
    LET d == DropNaRows(DropNaCols(inp.table))
    IN  IF Len(d.cols) >= Len(expected)
        THEN SetCols(TakeCols(d, [j \in 1..Len(expected) |-> j]), expected)
        ELSE d

\* df = df[df[key].notna()]; df[key] = df[key].astype(str).str.strip()
KeyNotNaStripped(d, k) ==
    MapCols(FilterRows(d, LAMBDA row : NotNa(row.c[k])), <<k>>,
            LAMBDA c : StrStrip(AstypeStr(c)))

\* the labels str(first), ..., str(last) as columns
YearLabels(first, last) == [i \in 1..(last - first + 1) |-> Txt(NatToStr(first + i - 1))]

\* the positions of the given labels; 0 for a label that is no column
LabelPositions(t, labels) == [i \in DOMAIN labels |-> ColIdx(t, labels[i])]

-----------------------------------------------------------------------------
(* display_occu_data                                                       *)

OccuFirstYear == 1981
OccuLastYear == 2020
OccuYearStep == 5

OccuExpected ==
    <<Txt(S_MAJOR_OCCUPATION_GROUP)>> \o YearLabels(OccuFirstYear, OccuLastYear)
        \o <<Txt(S_TOTAL)>>

\* lines 360-366
OccuClean(d) ==
    LET k == ColIdx(d, Txt(S_MAJOR_OCCUPATION_GROUP))
        d1 == KeyNotNaStripped(d, k)
    IN  MapCols(d1, OtherCols(d1, k), CoerceInt)

\* a variant that classifies by substring: a label that contains a listed name
OccuCategoryContains(x) ==
    IF x.t = "str" /\ \E e \in employed : Contains(x.s, e) THEN Txt(S_Employed)
    ELSE IF x.t = "str" /\ \E u \in unemployed : Contains(x.s, u) THEN Txt(S_Unemployed)
    ELSE NaN

\* line 404: exact membership in the group lists
OccuCategory(x) ==
    IF x.t = "str" /\ x.s \in employed THEN Txt(S_Employed)
    ELSE IF x.t = "str" /\ x.s \in unemployed THEN Txt(S_Unemployed)
    ELSE NaN

\* lines 403-405: df["CATEGORY"] = ...
OccuTagged(df) ==
    AddCol(df, Txt(S_CATEGORY),
           LAMBDA row : OccuCategory(row.c[ColIdx(df, Txt(S_MAJOR_OCCUPATION_GROUP))]))

\* line 408
OccuFiltered(tagged) ==
    LET k == ColIdx(tagged, Txt(S_MAJOR_OCCUPATION_GROUP))
        g == ColIdx(tagged, Txt(S_CATEGORY))
    IN  FilterRows(tagged, LAMBDA row :
            NotNa(row.c[g]) /\ ~ContainsAnyCI(row.c[k].s, {S_TOTAL}))

\* line 411: [str(y) for y in range(1981, 2021, 5)]
OccuSelectedYears ==
    LET n == ((OccuLastYear - OccuFirstYear) \div OccuYearStep) + 1
    IN  [i \in 1..n |-> Txt(NatToStr(OccuFirstYear + (i - 1) * OccuYearStep))]

\* lines 414-419
OccuMelt(filtered) ==
    Melt(filtered,
         <<ColIdx(filtered, Txt(S_MAJOR_OCCUPATION_GROUP)), ColIdx(filtered, Txt(S_CATEGORY))>>,
         LabelPositions(filtered, OccuSelectedYears))

display_occu_data(inp) ==
    LET base == Blank("occu", <<>>, inp)
        d == LoadExpected(inp, OccuExpected)
        df == OccuClean(d)
        filtered == OccuFiltered(OccuTagged(df))
        shown == [base EXCEPT !.shown = TRUE, !.clean = df, !.df = OccuTagged(df)]
    IN  IF ~inp.readable THEN [base EXCEPT !.raw_err = TRUE]
        ELSE IF ~HasCol(d, Txt(S_MAJOR_OCCUPATION_GROUP)) THEN [base EXCEPT !.err = TRUE]
        ELSE IF \/ \E i \in DOMAIN OccuSelectedYears : ~HasCol(filtered, OccuSelectedYears[i])
                \/ MeltRaises(filtered, Txt(S_Emigrants))
        THEN [shown EXCEPT !.err = TRUE, !.has_viz = TRUE, !.viz = filtered]
        ELSE [shown EXCEPT !.has_viz = TRUE, !.viz = filtered,
                           !.has_long = TRUE, !.long = OccuMelt(filtered)]

-----------------------------------------------------------------------------
(* display_sex_data                                                        *)

SexExpected == <<Txt(S_YEAR), Txt(S_MALE), Txt(S_FEMALE), Txt(S_TOTAL), Txt(S_SEX_RATIO)>>

RatioDivisor == 100

\* the first place of s where a digit stands; 0 when s has no digit
FirstDigitAt(s) ==
    IF \E i \in DOMAIN s : IsDigit(s[i])
    THEN CHOOSE i \in DOMAIN s : IsDigit(s[i]) /\ \A j \in 1..(i - 1) : ~IsDigit(s[j])
    ELSE 0

\* a variant that looks for the digits at the start of the text only (re.match)
ExtractRatioLeading(c) ==
    LET s == AstypeStr(c).s
    IN  IF DigitRun(s, 1) = <<>> THEN NaN
        ELSE Num((DigitsVal(DigitRun(s, 1)) * Scale) \div RatioDivisor)

\* lines 497-503: .astype(str).str.extract(r"(\d+)").astype(float) / 100
\* re.search: the first run of digits anywhere in the text
ExtractRatio(c) ==
    LET s == AstypeStr(c).s
        at == FirstDigitAt(s)
    IN  IF at = 0 THEN NaN
        ELSE Num((DigitsVal(DigitRun(s, at)) * Scale) \div RatioDivisor)

\* lines 492-508
SexClean(d) ==
    LET k == ColIdx(d, Txt(S_YEAR))
        d1 == KeyNotNaStripped(d, k)
        d2 == IF HasCol(d1, Txt(S_SEX_RATIO))
              THEN MapCols(d1, <<ColIdx(d1, Txt(S_SEX_RATIO))>>, ExtractRatio)
              ELSE AddCol(d1, Txt(S_SEX_RATIO), LAMBDA row : Num(0))
    IN  MapCols(d2, OtherCols(d2, k), CoerceFloat)

VizDenylist == {S_TOTAL, S_Average}

\* line 511 (and 633): df[~df["YEAR"].str.contains("TOTAL|Average", case=False)]
YearViz(df) ==
    FilterRows(df, LAMBDA row :
        ~ContainsAnyCI(row.c[ColIdx(df, Txt(S_YEAR))].s, VizDenylist))

\* lines 523-524: the chart's table, MALE negated
SexPyramid(viz) ==
    MapCols(viz, <<ColIdx(viz, Txt(S_MALE))>>, LAMBDA c : Num(-c.n))

display_sex_data(inp) ==
    LET base == Blank("sex", <<>>, inp)
        d == LoadExpected(inp, SexExpected)
        df == SexClean(d)
        shown == [base EXCEPT !.shown = TRUE, !.clean = df, !.df = df]
    IN  IF ~inp.readable THEN [base EXCEPT !.raw_err = TRUE]
        ELSE IF ~HasCol(d, Txt(S_YEAR)) THEN [base EXCEPT !.err = TRUE]
        ELSE IF ~HasCol(df, Txt(S_MALE)) \/ ~HasCol(df, Txt(S_FEMALE))
        THEN [shown EXCEPT !.err = TRUE]
        ELSE [shown EXCEPT !.has_viz = TRUE, !.viz = SexPyramid(YearViz(df))]

-----------------------------------------------------------------------------
(* display_civil_data                                                      *)

CivilStatuses ==
    <<Txt(S_Single), Txt(S_Married), Txt(S_Widower), Txt(S_Separated), Txt(S_Divorced),
      Txt(S_Not_Reported)>>

CivilExpected == <<Txt(S_YEAR)>> \o CivilStatuses \o <<Txt(S_TOTAL)>>

\* lines 629-630
CivilKeyed(d) == KeyNotNaStripped(d, ColIdx(d, Txt(S_YEAR)))

\* lines 635-636
CivilClean(keyed) == MapCols(keyed, OtherCols(keyed, ColIdx(keyed, Txt(S_YEAR))), CoerceInt)

\* lines 647-652: df_viz was taken at line 633, before the coercion of df
CivilMelt(viz) == Melt(viz, <<ColIdx(viz, Txt(S_YEAR))>>, LabelPositions(viz, CivilStatuses))

display_civil_data(inp) ==
    LET base == Blank("civil", <<>>, inp)
        d == LoadExpected(inp, CivilExpected)
        keyed == CivilKeyed(d)
        viz == YearViz(keyed)
        shown == [base EXCEPT !.shown = TRUE, !.clean = CivilClean(keyed),
                              !.df = CivilClean(keyed), !.has_viz = TRUE, !.viz = viz]
    IN  IF ~inp.readable THEN [base EXCEPT !.raw_err = TRUE]
        ELSE IF ~HasCol(d, Txt(S_YEAR)) THEN [base EXCEPT !.err = TRUE]
        ELSE IF \/ \E i \in DOMAIN CivilStatuses : ~HasCol(viz, CivilStatuses[i])
                \/ MeltRaises(viz, Txt(S_Emigrants))
        THEN [shown EXCEPT !.err = TRUE]
        ELSE [shown EXCEPT !.has_long = TRUE, !.long = CivilMelt(viz)]

-----------------------------------------------------------------------------
(* display_educ_data                                                       *)

EducFirstYear == 1988
EducLastYear == 2020

EducExpected ==
    <<Txt(S_EDUCATIONAL_ATTAINMENT)>> \o YearLabels(EducFirstYear, EducLastYear)
        \o <<Txt(S_TOTAL)>>

\* lines 742-752: the table shown as cleaned is df_viz
EducClean(d) ==
    LET k == ColIdx(d, Txt(S_EDUCATIONAL_ATTAINMENT))
        d1 == KeyNotNaStripped(d, k)
        d2 == FilterRows(d1, LAMBDA row : ~ContainsAnyCI(row.c[k].s, {S_TOTAL}))
        d3 == FilterRows(d2, LAMBDA row : Len(row.c[k].s) > 1)
    IN  MapCols(d3, OtherCols(d3, k), CoerceInt)

\* lines 762-773: melt every other column; a Year outside the categories is NaN
EducMelt(viz) ==
    LET k == ColIdx(viz, Txt(S_EDUCATIONAL_ATTAINMENT))
        recs == Melt(viz, <<k>>, OtherCols(viz, k))
    IN  [i \in DOMAIN recs |->
            IF recs[i].var \in Range(YearLabels(EducFirstYear, EducLastYear))
            THEN recs[i] ELSE [recs[i] EXCEPT !.var = NaN]]

display_educ_data(inp) ==
    LET base == Blank("educ", <<>>, inp)
        d == LoadExpected(inp, EducExpected)
        viz == EducClean(d)
        shown == [base EXCEPT !.shown = TRUE, !.clean = viz, !.df = viz,
                              !.has_viz = TRUE, !.viz = viz]
    IN  IF ~inp.readable THEN [base EXCEPT !.raw_err = TRUE]
        ELSE IF ~HasCol(d, Txt(S_EDUCATIONAL_ATTAINMENT)) THEN [base EXCEPT !.err = TRUE]
        ELSE IF MeltRaises(viz, Txt(S_Emigrants))
        THEN [shown EXCEPT !.err = TRUE]
        ELSE [shown EXCEPT !.has_long = TRUE, !.long = EducMelt(viz)]

-----------------------------------------------------------------------------
(* display_place_data: clean_sheet                                         *)

header_row == 2

\* str.replace(r"\.0$", "", regex=True)
StripDotZero(s) ==
    IF Len(s) >= 2 /\ s[Len(s) - 1] = "." /\ s[Len(s)] = "0"
    THEN SubSeq(s, 1, Len(s) - 2) ELSE s

\* str.replace(r"[\*\%\(\)\.]", "", regex=True).str.replace(" ", "_").str.strip()
SanitizeLabel(s) ==
    LET kept == SelectSeq(s, LAMBDA ch : ch \notin {"*", "%", "(", ")", "."})
    IN  Strip([i \in DOMAIN kept |-> IF kept[i] = " " THEN "_" ELSE kept[i]])

\* lines 839-849: the header row becomes the labels, the rows down to it go,
\* then the columns labelled Unnamed... or blank go, and the index restarts
SheetBody(t) ==
    LET labels == [j \in DOMAIN t.cols |->
                      Txt(StripDotZero(Strip(AstypeStr(t.rows[header_row + 1].c[j]).s)))]
        data == Table(labels, SubSeq(t.rows, header_row + 2, Len(t.rows)))
        named == TakeCols(data, Positions(Len(labels),
                     LAMBDA j : ~StartsWith(labels[j].s, S_Unnamed)))
        kept == TakeCols(named, Positions(Len(named.cols),
                     LAMBDA j : Strip(named.cols[j].s) # <<>>))
    IN  Table(kept.cols, [r \in DOMAIN kept.rows |-> Row(r - 1, kept.rows[r].c)])

\* lines 851-855
SheetLabelled(t) == MapLabels(SheetBody(t), LAMBDA l : Txt(SanitizeLabel(l.s)))

\* str.match(r"(?i)^nan$")
IsNanText(c) == StrUpper(c.s) = StrUpper(S_nan)

\* str.match(r"(?i)^Region")
IsRegionLabel(c) == StartsWith(StrUpper(c.s), StrUpper(S_Region))

\* lines 857-863
SheetKeyed(sheet_name, d) ==
    LET d1 == MapCols(d, <<1>>, LAMBDA c : StrStrip(AstypeStr(c)))
        d2 == FilterRows(d1, LAMBDA row : NotNa(row.c[1]))
        d3 == FilterRows(d2, LAMBDA row : ~IsNanText(row.c[1]))
    IN  IF sheet_name # S_REGION
        THEN FilterRows(d3, LAMBDA row : ~IsRegionLabel(row.c[1]))
        ELSE d3

\* lines 865-869
SheetNumeric(d) == DropNaCols(MapCols(d, OtherCols(d, 1), ToNumeric))

\* lines 870-876
SheetFinal(d) ==
    LET others == OtherCols(d, 1)
        d1 == FilterRows(d, LAMBDA row :
                  SumAt([j \in DOMAIN row.c |-> FillNa(row.c[j])], others) # 0)
        d2 == MapCols(d1, others, LAMBDA c : AstypeInt(FillNa(c)))
    IN  Table(d2.cols, [r \in DOMAIN d2.rows |-> Row(r - 1, d2.rows[r].c)])

\* the statements of clean_sheet that raise: df.iloc[header_row] on a short
\* sheet, df.columns[0] without columns, df[col] on a repeated label,
\* drop(columns=[first_col]) once dropna has removed every column
SheetRaises(sheet_name, inp) ==
    \/ ~inp.readable
    \/ Len(inp.table.rows) < header_row + 1
    \/ SheetLabelled(inp.table).cols = <<>>
    \/ \E i, j \in DOMAIN SheetLabelled(inp.table).cols :
          i # j /\ SheetLabelled(inp.table).cols[i] = SheetLabelled(inp.table).cols[j]
    \/ SheetNumeric(SheetKeyed(sheet_name, SheetLabelled(inp.table))).cols = <<>>

\* lines 835-882: the cleaned sheet, or the empty DataFrame after an exception
clean_sheet(sheet_name, inp) ==
    IF SheetRaises(sheet_name, inp)
    THEN [raised |-> TRUE, df |-> EmptyFrame]
    ELSE [raised |-> FALSE,
          df |-> SheetFinal(SheetNumeric(SheetKeyed(sheet_name, SheetLabelled(inp.table))))]

-----------------------------------------------------------------------------
(* display_place_data: one pass of the loop over the sheets                *)

\* one alternative of an anchored pattern: words separated by \s*
MatchWords(s, words) ==
    IF Len(words) = 1 THEN StrUpper(s) = StrUpper(words[1])
    ELSE /\ Len(s) >= Len(words[1]) + Len(words[2])
         /\ StartsWith(StrUpper(s), StrUpper(words[1]))
         /\ PrefixAt(StrUpper(s), StrUpper(words[2]), Len(s) - Len(words[2]) + 1)
         /\ \A i \in (Len(words[1]) + 1)..(Len(s) - Len(words[2])) : IsSpace(s[i])

\* r"(?i)^(total|totals|not\s*reported|no\s*response)$"
RegionProvincePattern ==
    { <<<<"t","o","t","a","l">>>>, <<<<"t","o","t","a","l","s">>>>,
      <<<<"n","o","t">>, <<"r","e","p","o","r","t","e","d">>>>,
      <<<<"n","o">>, <<"r","e","s","p","o","n","s","e">>>> }

\* r"(?i)^(total|grand\s*total|totals|not\s*reported|no\s*response)$"
MunicipalityPattern ==
    RegionProvincePattern \cup {<<<<"g","r","a","n","d">>, <<"t","o","t","a","l">>>>}

\* df[~df[first_col].str.match(pattern, na=False)]
DropMatching(df, pattern) ==
    FilterRows(df, LAMBDA row :
        ~(row.c[1].t = "str" /\ \E w \in pattern : MatchWords(row.c[1].s, w)))

\* a variant that sums the year-named columns only
WithTotalOfYears(df, numeric_cols) ==
    AddCol(df, Txt(S_Total), LAMBDA row :
        Num(SumAt(row.c, SelectSeq(numeric_cols, LAMBDA j : IsYearText(df.cols[j])))))

\* df["Total"] = df[numeric_cols].sum(axis=1), numeric_cols taken at line 912
WithTotal(df, numeric_cols) ==
    AddCol(df, Txt(S_Total), LAMBDA row : Num(SumAt(row.c, numeric_cols)))

\* lines 930-932: melt, Year = pd.to_numeric(Year, errors="coerce"), dropna
RegionMelt(df) ==
    LET recs == Melt(df, <<1>>, OtherCols(df, 1))
        yr == [i \in DOMAIN recs |-> [recs[i] EXCEPT !.var = ToNumeric(recs[i].var)]]
    IN  SelectSeq(yr, LAMBDA r : NotNa(r.var))

\* lines 887-1001 for one sheet
PlaceSheet(name, inp) ==
    LET base == Blank("place", name, inp)
        cs == clean_sheet(name, inp)
        df == cs.df
        shown == [base EXCEPT !.shown = TRUE, !.clean = df, !.df = df]
        numeric_cols == OtherCols(df, 1)
        region == DropMatching(df, RegionProvincePattern)
        province == DropMatching(df, RegionProvincePattern)
        municipality == DropMatching(df, MunicipalityPattern)
    IN  IF ~inp.readable THEN [base EXCEPT !.raw_err = TRUE]
        ELSE IF IsEmpty(df) THEN [base EXCEPT !.err = cs.raised, !.warn = TRUE]
        ELSE IF StrUpper(name) = S_REGION
        THEN IF MeltRaises(region, Txt(S_Emigrants))
             THEN [shown EXCEPT !.uncaught = TRUE]
             ELSE [shown EXCEPT !.has_viz = TRUE, !.viz = region,
                                !.has_long = TRUE, !.long = RegionMelt(region)]
        ELSE IF StrUpper(name) = S_PROVINCE
        THEN [shown EXCEPT !.has_viz = TRUE, !.viz = WithTotal(province, numeric_cols)]
        ELSE IF StrUpper(name) = S_MUNICIPALITY
        THEN [shown EXCEPT !.has_viz = TRUE, !.viz = WithTotal(municipality, numeric_cols)]
        ELSE shown

-----------------------------------------------------------------------------
(* Texts found in the workbooks the model reads                            *)

LIT_AGE_GROUP == <<"A","G","E"," ","G","R","O","U","P">>
LIT_15_19 == <<"1","5"," ","-"," ","1","9">>
LIT_Unnamed_0 == <<"U","n","n","a","m","e","d",":"," ","0">>
LIT_sp_USA == <<" ","U","S","A">>
LIT_GRAND_TOTAL == <<"G","R","A","N","D"," ","T","O","T","A","L">>
LIT_Others == <<"O","t","h","e","r","s">>
LIT_Narnia == <<"N","a","r","n","i","a">>
LIT_1981 == <<"1","9","8","1">>
LIT_1981_sp == <<"1","9","8","1"," ">>
LIT_Occupation == <<"O","c","c","u","p","a","t","i","o","n">>
LIT_Housewives == <<"H","o","u","s","e","w","i","v","e","s">>
LIT_sp_Clerical == <<" ","C","l","e","r","i","c","a","l"," ","W","o","r","k","e","r","s"," ">>
LIT_Sales_II == <<"S","a","l","e","s"," ","W","o","r","k","e","r","s"," ","I","I">>
LIT_housewives_lc == <<"h","o","u","s","e","w","i","v","e","s">>
LIT_Male == <<"M","a","l","e">>
LIT_Female == <<"F","e","m","a","l","e">>
LIT_Sex_Ratio == <<"S","e","x"," ","R","a","t","i","o">>
LIT_71M_100F == <<"7","1","M","/","1","0","0","F">>
LIT_M71_100F == <<"M","7","1","/","1","0","0","F">>
LIT_no_ratio == <<"n",".","a",".">>
LIT_0_71 == <<"0",".","7","1">>
LIT_1988 == <<"1","9","8","8">>
LIT_1988_sp == <<" ","1","9","8","8">>
LIT_Average_c == <<"A","v","e","r","a","g","e",":">>
LIT_abc == <<"a","b","c">>
LIT_Education == <<"E","d","u","c","a","t","i","o","n">>
LIT_College == <<"C","o","l","l","e","g","e"," ","G","r","a","d","u","a","t","e">>
LIT_College_sp == <<"C","o","l","l","e","g","e"," ","G","r","a","d","u","a","t","e"," ">>
LIT_Total_lc == <<"T","o","t","a","l">>
LIT_Title == <<"T","i","t","l","e">>
LIT_Place == <<"P","l","a","c","e">>
LIT_1988_0 == <<"1","9","8","8",".","0">>
LIT_1989 == <<"1","9","8","9">>
LIT_Total_pct == <<"T","o","t","a","l"," ","(","%",")">>
LIT_Region_I == <<"R","e","g","i","o","n"," ","I">>
LIT_Cebu == <<"C","e","b","u">>
LIT_Cebu_sp == <<" ","C","e","b","u">>
LIT_Not_Reported == <<"N","o","t"," "," ","R","e","p","o","r","t","e","d">>
LIT_Notes == <<"N","O","T","E","S">>
LIT_Region_mixed == <<"R","e","g","i","o","n">>

-----------------------------------------------------------------------------
(* The workbooks the model reads: every table of up to MaxRows rows drawn  *)
(* from a few keys and a few fillings of the value cells                   *)

MaxRows == 2

\* a row of n cells: the key, the first value cell, the other value cells
MkRow(key, fill, n) == <<key, fill[1]>> \o [i \in 1..(n - 2) |-> fill[2]]

\* all sequences of up to MaxRows rows, indexed from 0 as read_excel does
Grids(rowset) ==
    UNION { { [r \in 1..m |-> Row(r - 1, g[r])] : g \in [1..m -> rowset] } : m \in 0..MaxRows }

Sheets(header, rowset) == { Workbook(TRUE, Table(header, g)) : g \in Grids(rowset) }

Unreadable == Workbook(FALSE, EmptyFrame)

\* fillings of the value cells: a symbol and a count; nothing at all; a number
\* written as text; a fraction and a count
MainFill == <<Txt(<<"-">>), IntCell(7)>>
Fills ==
    { MainFill,
      <<NaN, NaN>>,
      <<Txt(<<" ","1","2">>), NaN>>,
      <<Num(250), IntCell(3)>> }

\* rows of n cells: every key with the main filling, one key with every
\* filling, and the row that is empty in every cell
RowSet(keys, key, n) ==
    {MkRow(k, MainFill, n) : k \in keys} \cup {MkRow(key, f, n) : f \in Fills}
        \cup {MkRow(NaN, <<NaN, NaN>>, n)}

K_blank == Txt(<<" ">>)

AgeHeader == <<Txt(LIT_AGE_GROUP), IntCell(1990), IntCell(1991), Txt(S_TOTAL)>>
AgeKeys == {NaN, K_blank, Txt(LIT_15_19), Txt(S_TOTAL)}
AgeInputs == {Unreadable} \cup Sheets(AgeHeader, RowSet(AgeKeys, Txt(LIT_15_19), 4))

CountryHeader == <<Txt(LIT_Unnamed_0), IntCell(1981), IntCell(1982)>>
CountryKeys ==
    {NaN, K_blank, Txt(S_USA), Txt(LIT_sp_USA), Txt(LIT_GRAND_TOTAL), Txt(LIT_Others),
     Txt(LIT_Narnia)}
CountryInputs == {Unreadable} \cup Sheets(CountryHeader, RowSet(CountryKeys, Txt(S_USA), 3))

\* the labels found in the MajorCountry sheet: as many as expected, or fewer
MajorHeaderFull == [j \in 1..14 |-> IF j = 1 THEN Txt(S_Year) ELSE MajorExpected[j]]
MajorHeaderShort == <<Txt(S_YEAR), Txt(S_USA), Txt(S_TOTAL)>>
MajorKeys == {NaN, K_blank, Txt(LIT_1981), Txt(LIT_1981_sp), Txt(S_TOTAL)}
MajorInputs ==
    {Unreadable}
    \cup Sheets(MajorHeaderFull, RowSet(MajorKeys, Txt(LIT_1981), 14))
    \cup Sheets(MajorHeaderShort, RowSet(MajorKeys, Txt(LIT_1981), 3))

OccuHeaderFull ==
    <<Txt(LIT_Occupation)>> \o [i \in 1..40 |-> IntCell(1980 + i)] \o <<Txt(S_TOTAL)>>
OccuHeaderShort == <<Txt(S_MAJOR_OCCUPATION_GROUP), Txt(LIT_1981), Txt(S_TOTAL)>>
OccuKeys ==
    {NaN, K_blank, Txt(LIT_Housewives), Txt(LIT_sp_Clerical), Txt(LIT_Sales_II), Txt(S_TOTAL),
     Txt(LIT_housewives_lc)}
OccuInputs ==
    {Unreadable}
    \cup Sheets(OccuHeaderFull, RowSet(OccuKeys, Txt(LIT_Housewives), 42))
    \cup Sheets(OccuHeaderShort, RowSet(OccuKeys, Txt(LIT_Housewives), 3))

SexHeader == <<Txt(S_Year), Txt(LIT_Male), Txt(LIT_Female), Txt(S_Total), Txt(LIT_Sex_Ratio)>>
SexHeaderShort == <<Txt(S_YEAR), Txt(S_MALE), Txt(S_FEMALE)>>
SexKeys == {NaN, K_blank, Txt(LIT_1981), Txt(LIT_1981_sp), Txt(S_TOTAL), Txt(LIT_abc)}
RatioCells ==
    {NaN, Txt(LIT_71M_100F), Txt(LIT_M71_100F), Txt(LIT_no_ratio), Txt(LIT_0_71)}
SexRows ==
    {<<k, Num(250), IntCell(3), IntCell(5), Txt(LIT_71M_100F)>> : k \in SexKeys}
        \cup {<<Txt(LIT_1981), Txt(<<"-">>), IntCell(3), NaN, q>> : q \in RatioCells}
        \cup {MkRow(NaN, <<NaN, NaN>>, 5)}
\* a Sex sheet with one column more than the five expected
SexHeaderLong ==
    <<Txt(S_YEAR), Txt(S_MALE), Txt(S_FEMALE), Txt(S_Total), Txt(LIT_Sex_Ratio), Txt(LIT_Notes)>>
SexLongRows ==
    { <<Txt(LIT_1981), Num(250), IntCell(3), IntCell(5), Txt(LIT_71M_100F), IntCell(9)>>,
      <<Txt(S_TOTAL), Txt(<<"-">>), IntCell(3), NaN, NaN, Txt(LIT_abc)>> }
SexInputs ==
    {Unreadable}
    \cup Sheets(SexHeader, SexRows)
    \cup Sheets(SexHeaderLong, SexLongRows)
    \cup Sheets(SexHeaderShort, RowSet(SexKeys, Txt(LIT_1981), 3))

CivilHeader == [j \in 1..8 |-> IF j = 1 THEN Txt(S_Year) ELSE CivilExpected[j]]
CivilHeaderShort == <<Txt(S_YEAR), Txt(S_Single), Txt(S_TOTAL)>>
CivilKeys == {NaN, K_blank, Txt(LIT_1988), Txt(LIT_1988_sp), Txt(LIT_Average_c), Txt(LIT_abc)}
CivilInputs ==
    {Unreadable}
    \cup Sheets(CivilHeader, RowSet(CivilKeys, Txt(LIT_1988), 8))
    \cup Sheets(CivilHeaderShort, RowSet(CivilKeys, Txt(LIT_1988), 3))

EducHeader ==
    <<Txt(LIT_Education)>> \o [i \in 1..33 |-> IntCell(1987 + i)] \o <<Txt(S_TOTAL)>>
EducKeys ==
    {NaN, K_blank, Txt(LIT_College), Txt(LIT_College_sp), Txt(LIT_Total_lc), Txt(<<"x">>)}
EducInputs == {Unreadable} \cup Sheets(EducHeader, RowSet(EducKeys, Txt(LIT_College), 35))

\* a place-of-origin sheet as read with header=None: two title rows, the
\* header row, the data rows; or a sheet that stops above the header row
SheetTitle(n) == [j \in 1..n |-> IF j = 1 THEN Txt(LIT_Title) ELSE NaN]
SheetBlank(n) == [j \in 1..n |-> NaN]

RawSheet(header, g) ==
    Workbook(TRUE,
             Table([j \in DOMAIN header |-> IntCell(j - 1)],
                   LET top == <<SheetTitle(Len(header)), SheetBlank(Len(header)), header>>
                       all == top \o [r \in DOMAIN g |-> g[r].c]
                   IN  [r \in DOMAIN all |-> Row(r - 1, all[r])]))

ShortSheet ==
    Workbook(TRUE, Table(<<IntCell(0)>>, <<Row(0, <<Txt(LIT_Title)>>)>>))

\* header rows: year labels and a total; a value column labelled Emigrants
\* and an unlabelled one; the same label twice; a column labelled Total
PlaceHeader == <<Txt(LIT_Place), Txt(LIT_1988_0), Txt(LIT_1989), Txt(LIT_Total_pct)>>
PlaceHeaderEmigrants == <<Txt(LIT_Place), Txt(LIT_1988_0), Txt(S_Emigrants), NaN>>
PlaceHeaderRepeated == <<Txt(LIT_Place), Txt(LIT_1988_0), Txt(LIT_1988), Txt(S_TOTAL)>>
PlaceHeaderTotal == <<Txt(LIT_Place), Txt(LIT_1988_0), Txt(LIT_1989), Txt(S_Total)>>
PlaceKeys ==
    {NaN, K_blank, Txt(LIT_Region_I), Txt(LIT_Cebu), Txt(LIT_Cebu_sp), Txt(S_TOTAL),
     Txt(LIT_GRAND_TOTAL), Txt(LIT_Not_Reported)}
PlaceRows ==
    RowSet(PlaceKeys, Txt(LIT_Cebu), 4) \cup {MkRow(Txt(LIT_Cebu), <<Num(40), NaN>>, 4)}
PlaceFewRows == {MkRow(Txt(LIT_Cebu), MainFill, 4), MkRow(Txt(S_TOTAL), MainFill, 4)}
PlaceInputs ==
    {Unreadable, ShortSheet}
    \cup { RawSheet(PlaceHeader, g) : g \in Grids(PlaceRows) }
    \cup { RawSheet(h, g) : h \in {PlaceHeaderEmigrants, PlaceHeaderRepeated, PlaceHeaderTotal},
                            g \in Grids(PlaceFewRows) }

\* excel_file.sheet_names of the workbooks read
SheetLists ==
    { <<S_REGION, S_PROVINCE, S_MUNICIPALITY>>,
      <<LIT_Notes, LIT_Region_mixed, S_PROVINCE>> }

-----------------------------------------------------------------------------
(* main: the display_* calls in tab order; a call's locals are gone once   *)
(* it has returned and the next tab is entered                             *)

TabOrder == <<"story", "age", "country", "major", "occu", "sex", "civil", "educ", "place">>

TabAfter(tab) == TabOrder[(CHOOSE i \in DOMAIN TabOrder : TabOrder[i] = tab) + 1]

Init ==
    /\ pc = "story"
    /\ frame = NoFrame
    /\ sheet_names = <<>>
    /\ sheet_i = 0
    /\ reported = FALSE

\* lines 1021-1022
DisplayStoryIntro ==
    /\ pc = "story" /\ frame = NoFrame
    /\ frame' = Blank("story", <<>>, NoInput)
    /\ UNCHANGED <<pc, sheet_names, sheet_i, reported>>

\* lines 1024-1025
DisplayAge ==
    /\ pc = "age" /\ frame = NoFrame
    /\ \E inp \in AgeInputs : frame' = display_age_data(inp)
    /\ UNCHANGED <<pc, sheet_names, sheet_i, reported>>

\* lines 1027-1028
DisplayCountry ==
    /\ pc = "country" /\ frame = NoFrame
    /\ \E inp \in CountryInputs : frame' = display_country_data(inp)
    /\ UNCHANGED <<pc, sheet_names, sheet_i, reported>>

\* lines 1030-1031
DisplayMajorCountry ==
    /\ pc = "major" /\ frame = NoFrame
    /\ \E inp \in MajorInputs : frame' = display_major_country_data(inp)
    /\ UNCHANGED <<pc, sheet_names, sheet_i, reported>>

\* lines 1033-1034
DisplayOccu ==
    /\ pc = "occu" /\ frame = NoFrame
    /\ \E inp \in OccuInputs : frame' = display_occu_data(inp)
    /\ UNCHANGED <<pc, sheet_names, sheet_i, reported>>

\* lines 1036-1037
DisplaySex ==
    /\ pc = "sex" /\ frame = NoFrame
    /\ \E inp \in SexInputs : frame' = display_sex_data(inp)
    /\ UNCHANGED <<pc, sheet_names, sheet_i, reported>>

\* lines 1039-1040
DisplayCivil ==
    /\ pc = "civil" /\ frame = NoFrame
    /\ \E inp \in CivilInputs : frame' = display_civil_data(inp)
    /\ UNCHANGED <<pc, sheet_names, sheet_i, reported>>

\* lines 1042-1043
DisplayEduc ==
    /\ pc = "educ" /\ frame = NoFrame
    /\ \E inp \in EducInputs : frame' = display_educ_data(inp)
    /\ UNCHANGED <<pc, sheet_names, sheet_i, reported>>

\* the call has returned: main enters the next tab
NextTab ==
    /\ pc \in Range(TabOrder) \ {"place"}
    /\ frame.ds = pc
    /\ pc' = TabAfter(pc)
    /\ frame' = NoFrame
    /\ UNCHANGED <<sheet_names, sheet_i, reported>>

\* lines 827-832 and 885: the workbook opens and the loop starts, or the
\* error is reported and display_place_data returns
PlaceOpen ==
    /\ pc = "place" /\ frame = NoFrame
    /\ \/ /\ frame' = [Blank("place", <<>>, Unreadable) EXCEPT !.err = TRUE]
          /\ pc' = "done"
          /\ UNCHANGED <<sheet_names, sheet_i, reported>>
       \/ /\ \E names \in SheetLists : sheet_names' = names
          /\ sheet_i' = 1
          /\ pc' = "sheets"
          /\ UNCHANGED <<frame, reported>>

\* lines 887-1001: the loop body for sheet_names[sheet_i]; an exception
\* nothing catches leaves display_place_data and main
ProcessSheet ==
    /\ pc = "sheets" /\ frame = NoFrame
    /\ sheet_i <= Len(sheet_names)
    /\ \E inp \in PlaceInputs : frame' = PlaceSheet(sheet_names[sheet_i], inp)
    /\ pc' = IF frame'.uncaught THEN "aborted" ELSE pc
    /\ UNCHANGED <<sheet_names, sheet_i, reported>>

\* line 887: the loop takes the next sheet; the messages of the sheets done
\* (st.error at lines 881 and 899, st.warning at line 908) stay on the page
NextSheet ==
    /\ pc = "sheets" /\ frame # NoFrame
    /\ sheet_i' = sheet_i + 1
    /\ reported' = (reported \/ frame.raw_err \/ frame.err \/ frame.warn)
    /\ frame' = NoFrame
    /\ UNCHANGED <<pc, sheet_names>>

\* the loop is exhausted: display_place_data and main return
PlaceReturn ==
    /\ pc = "sheets" /\ frame = NoFrame
    /\ sheet_i > Len(sheet_names)
    /\ pc' = "done"
    /\ UNCHANGED <<frame, sheet_names, sheet_i, reported>>

Next ==
    \/ DisplayStoryIntro
    \/ DisplayAge
    \/ DisplayCountry
    \/ DisplayMajorCountry
    \/ DisplayOccu
    \/ DisplaySex
    \/ DisplayCivil
    \/ DisplayEduc
    \/ NextTab
    \/ PlaceOpen
    \/ ProcessSheet
    \/ NextSheet
    \/ PlaceReturn

Spec == Init /\ [][Next]_vars

-----------------------------------------------------------------------------
(* Vocabulary of the properties                                            *)

Datasets == {"age", "country", "major", "occu", "sex", "civil", "educ", "place"}

\* the position of the Key column in the cleaned table of a dataset
KeyPos(f) ==
    CASE f.ds = "country" -> ColIdx(f.clean, Txt(S_COUNTRY))
      [] f.ds \in {"major", "sex", "civil"} -> ColIdx(f.clean, Txt(S_YEAR))
      [] f.ds = "occu" -> ColIdx(f.clean, Txt(S_MAJOR_OCCUPATION_GROUP))
      [] f.ds = "educ" -> ColIdx(f.clean, Txt(S_EDUCATIONAL_ATTAINMENT))
      [] OTHER -> 1

\* a cleaned table was produced and shown by a dataset pipeline
Cleaned(f) == f.ds \in Datasets /\ f.shown

\* the row of the workbook a row of a table came from (not for the sheets of
\* the place-of-origin workbook, whose index is renumbered)
RawRow(f, row) == f.input.table.rows[row.ix + 1]

\* no column of the workbook was dropped, so positions agree with the input
ColumnsKept(f) ==
    /\ f.ds # "place"
    /\ DropNaCols(f.input.table).cols = f.input.table.cols
    /\ Len(f.clean.cols) >= Len(f.input.table.cols)

\* the cell cannot be parsed as a number: blank, text, symbol
Unparsable(c) == IsNa(ToNumeric(c))

\* the positions of the Numeric columns of the cleaned table: every column
\* but the Key and the composite SEX_RATIO field
NumericCols(f) ==
    Positions(Len(f.clean.cols),
              LAMBDA j : j # KeyPos(f) /\ ~(f.ds = "sex" /\ f.clean.cols[j] = Txt(S_SEX_RATIO)))

-----------------------------------------------------------------------------
\* C1: in every dataset pipeline, every cell of a Numeric column of the
\* cleaned table is a number, and it is exactly 0 where the cell read from
\* the workbook could not be parsed as a number.
C1_UnparsableCellIsZero ==
    Cleaned(frame) =>
        \A r \in DOMAIN frame.clean.rows : \A j \in Range(NumericCols(frame)) :
                /\ frame.clean.rows[r].c[j].t = "num"
                /\ (/\ ColumnsKept(frame)
                    /\ j <= Len(frame.input.table.cols)
                    /\ Unparsable(RawRow(frame, frame.clean.rows[r]).c[j]))
                   => frame.clean.rows[r].c[j] = Num(0)

-----------------------------------------------------------------------------
\* the Key of a row as text, trimmed
KeyText(f, row) == StrStrip(AstypeStr(row.c[KeyPos(f)]))

\* the Key of a row of the workbook as text, trimmed (position 1 is the Key
\* column of every workbook read here)
RawKeyText(row) == StrStrip(AstypeStr(row.c[1]))

KeysUnique(f) ==
    \A r1, r2 \in DOMAIN f.clean.rows : r1 # r2 => KeyText(f, f.clean.rows[r1]) # KeyText(f, f.clean.rows[r2])

\* C2 as stated: in the cleaned table of every dataset the Key column is
\* unique after trimming.
C2_KeyUniqueInEveryDataset == Cleaned(frame) => KeysUnique(frame)

\* C2: in the cleaned table of display_country_data the Key column is unique
\* after trimming, and the row kept for a Key is the first row of the workbook
\* with that Key (where no column of the sheet is empty, so that the first
\* column is the Key): no earlier row with a Key has the same trimmed Key, and
\* its value cells are the coerced cells of that row.
C2_CountryKeepsFirstOccurrence ==
    (Cleaned(frame) /\ frame.ds = "country") =>
        /\ KeysUnique(frame)
        /\ ColumnsKept(frame) =>
              \A r \in DOMAIN frame.clean.rows :
                LET row == frame.clean.rows[r]
                    raw == RawRow(frame, row)
                IN  /\ KeyText(frame, row) = RawKeyText(raw)
                    /\ \A q \in DOMAIN frame.input.table.rows :
                          LET other == frame.input.table.rows[q]
                          IN  (other.ix < row.ix /\ NotNa(other.c[1]))
                                  => RawKeyText(other) # RawKeyText(raw)
                    /\ \A j \in 2..Len(raw.c) : row.c[j] = CoerceInt(raw.c[j])

\* two rows of the Countries sheet share a trimmed Key and differ in a value
\* cell, and the cleaned table holds that Key
C2_Witness ==
    /\ Cleaned(frame) /\ frame.ds = "country" /\ ColumnsKept(frame)
    /\ \E q1, q2 \in DOMAIN frame.input.table.rows :
          LET a == frame.input.table.rows[q1]
              b == frame.input.table.rows[q2]
          IN  /\ q1 < q2 /\ NotNa(a.c[1]) /\ NotNa(b.c[1])
              /\ RawKeyText(a) = RawKeyText(b)
              /\ CoerceInt(a.c[2]) # CoerceInt(b.c[2])
              /\ \E r \in DOMAIN frame.clean.rows : frame.clean.rows[r].ix = a.ix

-----------------------------------------------------------------------------
\* the text holds one of the tokens, in any case
HoldsAny(c, tokens) == c.t = "str" /\ ContainsAnyCI(c.s, tokens)

\* the text holds the denylisted token TOTAL, in any case
HoldsTotal(c) == HoldsAny(c, {S_TOTAL})

\* C3: in every dataset pipeline, place-of-origin sheets included, no row whose
\* Key contains the denylisted token TOTAL (in any case, anywhere in the text)
\* is in the cleaned table, and no melted record derived from it carries such
\* a Key.
C3_DenylistedKeyAbsent ==
    Cleaned(frame) =>
        /\ \A r \in DOMAIN frame.clean.rows :
              ~HoldsTotal(frame.clean.rows[r].c[KeyPos(frame)])
        /\ frame.has_long =>
              \A i \in DOMAIN frame.long : ~HoldsTotal(frame.long[i].key[1])

-----------------------------------------------------------------------------
\* the Sex sheet was read with its five columns, SEX_RATIO the fifth
SexRatioRead(f) == Cleaned(f) /\ f.ds = "sex" /\ ColumnsKept(f) /\ Len(f.input.table.cols) = 5

\* the text of the SEX_RATIO cell of the row of the sheet a cleaned row came from
RawRatioText(f, row) == AstypeStr(RawRow(f, row).c[5]).s

\* the ratio of n to 100, as a cell
RatioOf(n) == Num((n * Scale) \div 100)

\* C4 as stated: a SEX_RATIO text that starts with an integer n yields n/100,
\* and a text that does not start with digits yields 0.
C4_RatioIsLeadingInteger ==
    SexRatioRead(frame) =>
        \A r \in DOMAIN frame.clean.rows :
            LET s == RawRatioText(frame, frame.clean.rows[r])
            IN  frame.clean.rows[r].c[5] =
                    IF DigitRun(s, 1) # <<>> THEN RatioOf(DigitsVal(DigitRun(s, 1)))
                    ELSE Num(0)

\* C4: a SEX_RATIO text that holds a digit yields n/100, n the integer written
\* by the first run of digits anywhere in the text; a text with no digit at
\* all (a missing cell included) yields 0.
C4_RatioIsFirstDigitRun ==
    SexRatioRead(frame) =>
        \A r \in DOMAIN frame.clean.rows :
            LET s == RawRatioText(frame, frame.clean.rows[r])
            IN  /\ (\A i \in DOMAIN s : ~IsDigit(s[i])) => frame.clean.rows[r].c[5] = Num(0)
                /\ \A i \in DOMAIN s :
                      (IsDigit(s[i]) /\ \A j \in 1..(i - 1) : ~IsDigit(s[j]))
                          => frame.clean.rows[r].c[5] = RatioOf(DigitsVal(DigitRun(s, i)))

\* a cleaned row of the Sex sheet whose SEX_RATIO text holds digits but does
\* not start with one, and whose ratio is not 0
C4_Witness ==
    /\ SexRatioRead(frame)
    /\ \E r \in DOMAIN frame.clean.rows :
          LET s == RawRatioText(frame, frame.clean.rows[r])
          IN  /\ s # <<>> /\ ~IsDigit(s[1]) /\ \E i \in DOMAIN s : IsDigit(s[i])
              /\ frame.clean.rows[r].c[5] # Num(0)

-----------------------------------------------------------------------------
\* the occupation pipeline got as far as the group-comparison view
OccuGrouped(f) == f.ds = "occu" /\ f.shown /\ f.has_viz

\* the Key label of a row of the occupation tables, a text
OccuLabel(f, row) == row.c[KeyPos(f)].s

Listed(label) == label \in employed \cup unemployed

-----------------------------------------------------------------------------
\* the Year of a melted record is a four-digit year, as text or as a number
IsYearVar(v) ==
    \/ IsYearText(v)
    \/ v.t = "num" /\ v.n % Scale = 0 /\ v.n \div Scale \in 1000..9999

\* the positions of the year-named columns of a table
YearCols(t) == Positions(Len(t.cols), LAMBDA j : IsYearText(t.cols[j]))

\* the melted records of one row of a table
RecordsOf(f, ix) == SelectSeq(f.long, LAMBDA rec : rec.ix = ix)

\* C6 as stated: for every cleaned table that is melted, the long records are
\* exactly one per (Key row, year-named column) pair and none for any other
\* column.
C6_OneRecordPerYearColumn ==
    (Cleaned(frame) /\ frame.has_long) =>
        /\ \A i \in DOMAIN frame.long : IsYearVar(frame.long[i].var)
        /\ \A r \in DOMAIN frame.clean.rows :
              Len(RecordsOf(frame, frame.clean.rows[r].ix)) = Len(YearCols(frame.clean))

\* C6: in display_age_data the long records are exactly one per (row,
\* year-named column) pair of the cleaned table, each with the Key and the
\* cell of its row, and none for any other column; the other pipelines melt
\* otherwise: display_occu_data the eight selected years of the rows of
\* df_filtered, display_civil_data the six status columns of df_viz,
\* display_educ_data every column but the Key, TOTAL included.
C6_AgeOneRecordPerYearColumn ==
    /\ (Cleaned(frame) /\ frame.ds = "age" /\ frame.has_long) =>
          /\ \A i \in DOMAIN frame.long :
                \E r \in DOMAIN frame.clean.rows : \E j \in Range(YearCols(frame.clean)) :
                    /\ j # 1
                    /\ frame.long[i] = LongRec(frame.clean.rows[r].ix,
                                               <<frame.clean.rows[r].c[1]>>,
                                               IntCell(DigitsVal(frame.clean.cols[j].s)),
                                               frame.clean.rows[r].c[j])
          /\ \A r \in DOMAIN frame.clean.rows :
                /\ Len(RecordsOf(frame, frame.clean.rows[r].ix)) = Len(YearCols(frame.clean))
                /\ \A j \in Range(YearCols(frame.clean)) :
                      \E i \in DOMAIN frame.long :
                          /\ frame.long[i].ix = frame.clean.rows[r].ix
                          /\ frame.long[i].var = IntCell(DigitsVal(frame.clean.cols[j].s))
                          /\ frame.long[i].value = frame.clean.rows[r].c[j]
    /\ (frame.ds = "occu" /\ frame.has_long) =>
          /\ Len(frame.long) = 8 * Len(frame.viz.rows)
          /\ \A i \in DOMAIN frame.long :
                /\ frame.long[i].var.t = "str"
                /\ (DigitsVal(frame.long[i].var.s) - 1981) % 5 = 0
    /\ (frame.ds = "civil" /\ frame.has_long) =>
          /\ Len(frame.long) = 6 * Len(frame.viz.rows)
          /\ \A i \in DOMAIN frame.long : ~IsYearVar(frame.long[i].var)
    /\ (frame.ds = "educ" /\ frame.has_long) =>
          Len(frame.long) = (Len(frame.clean.cols) - 1) * Len(frame.clean.rows)

\* the Age sheet with columns [Key, 1990, 1991, TOTAL] and two rows is melted
\* into 2 records per row
C6_Witness ==
    /\ Cleaned(frame) /\ frame.ds = "age" /\ frame.has_long
    /\ Len(frame.clean.cols) = 4 /\ YearCols(frame.clean) = <<2, 3>>
    /\ frame.clean.cols[4] = Txt(S_TOTAL)
    /\ Len(frame.clean.rows) = 2
    /\ Len(frame.long) = 4

-----------------------------------------------------------------------------
\* the sheet just processed failed: it could not be read, clean_sheet raised,
\* or the cleaned result is empty
SheetFailed(f) ==
    /\ f.ds = "place" /\ f.sheet # <<>>
    /\ \/ ~f.input.readable
       \/ clean_sheet(f.sheet, f.input).raised
       \/ IsEmpty(clean_sheet(f.sheet, f.input).df)

\* C7: in display_place_data, a sheet that fails (raw preview, clean_sheet
\* exception, empty cleaned result) yields an empty table with a reported
\* error or warning and the loop goes on, and once a sheet has failed every
\* remaining sheet of sheet_names is still reached: the loop is never left
\* while sheets remain.
C7_RemainingSheetsProcessed ==
    /\ SheetFailed(frame) =>
          /\ IsEmpty(frame.clean) /\ ~frame.shown
          /\ frame.raw_err \/ frame.err \/ frame.warn
          /\ pc = "sheets"
    /\ (reported /\ sheet_i < Len(sheet_names)) => pc # "aborted"

-----------------------------------------------------------------------------
\* C8: no failure of a dataset or of a sheet leaves its display_* call as an
\* exception: whatever fails (raw load, cleaning, reshaping, the per-sheet
\* aggregation and chart preparation), main and the loop over the sheets go
\* on, so every later display_* call and every later sheet is reached.
C8_FailureStaysScoped == ~frame.uncaught /\ pc # "aborted"

-----------------------------------------------------------------------------
\* C9: the cleaned table of every dataset pipeline has no row whose cells
\* are all empty and no column whose cells are all empty.
C9_NoEmptyRowOrColumn ==
    Cleaned(frame) =>
        /\ \A r \in DOMAIN frame.clean.rows :
              \E j \in DOMAIN frame.clean.cols : NotNa(frame.clean.rows[r].c[j])
        /\ frame.clean.rows # <<>> =>
              \A j \in DOMAIN frame.clean.cols :
                  \E r \in DOMAIN frame.clean.rows : NotNa(frame.clean.rows[r].c[j])

-----------------------------------------------------------------------------
\* a Key that is blank: empty, or whitespace only
IsBlankKey(c) == c.t = "str" /\ Strip(c.s) = <<>>

\* the datasets whose Key is a year
YearKeyed == {"major", "sex", "civil"}

\* C10: no row of the cleaned table of any dataset pipeline has a Key that
\* is missing, blank, or (where the Key is a year) not a year.
C10_BadKeyRowsAbsent ==
    Cleaned(frame) =>
        \A r \in DOMAIN frame.clean.rows :
            LET key == frame.clean.rows[r].c[KeyPos(frame)]
            IN  /\ NotNa(key)
                /\ ~IsBlankKey(key)
                /\ frame.ds \in YearKeyed => IsYearText(StrStrip(AstypeStr(key)))

-----------------------------------------------------------------------------
\* the pipelines with a configured expected column list, and their lists
WithExpected == {"major", "occu", "sex", "civil", "educ"}

ExpectedOf(ds) ==
    CASE ds = "major" -> MajorExpected
      [] ds = "occu" -> OccuExpected
      [] ds = "sex" -> SexExpected
      [] ds = "civil" -> CivilExpected
      [] OTHER -> EducExpected

\* the labels of the columns found in the sheet: those not empty in every row
FoundLabels(f) == DropNaCols(f.input.table).cols

IsPrefix(a, b) == Len(a) <= Len(b) /\ SubSeq(b, 1, Len(a)) = a

\* C11 as stated: in every pipeline with an expected column list the
\* canonical names replace the labels exactly when the number of columns
\* found equals the length of the list; otherwise the labels found are kept
\* and no column is dropped.
C11_RenameIffCountsEqual ==
    (Cleaned(frame) /\ frame.ds \in WithExpected) =>
        IF Len(FoundLabels(frame)) = Len(ExpectedOf(frame.ds))
        THEN frame.clean.cols = ExpectedOf(frame.ds)
        ELSE IsPrefix(FoundLabels(frame), frame.clean.cols)

\* C11: display_major_country_data renames exactly when the counts are
\* equal and otherwise keeps every column with its label; the occupation,
\* sex, civil-status and education pipelines rename when at least as many
\* columns are found as expected, keeping only the leading ones, and keep
\* every column with its label when fewer are found.
C11_RenameByCount ==
    (Cleaned(frame) /\ frame.ds \in WithExpected) =>
        LET found == FoundLabels(frame)
            expected == ExpectedOf(frame.ds)
            renamed == IF frame.ds = "major" THEN Len(found) = Len(expected)
                       ELSE Len(found) >= Len(expected)
        IN  IF renamed THEN frame.clean.cols = expected
            ELSE IsPrefix(found, frame.clean.cols)

\* a Sex sheet with six columns is cleaned to the five expected columns
C11_Witness ==
    /\ Cleaned(frame) /\ frame.ds = "sex"
    /\ Len(FoundLabels(frame)) = Len(SexExpected) + 1
    /\ frame.clean.cols = SexExpected
    /\ frame.clean.rows # <<>>

-----------------------------------------------------------------------------
\* the label of the Key column each pipeline looks for
KeyName(ds) ==
    CASE ds = "occu" -> Txt(S_MAJOR_OCCUPATION_GROUP)
      [] ds = "educ" -> Txt(S_EDUCATIONAL_ATTAINMENT)
      [] OTHER -> Txt(S_YEAR)

\* the sheet was read, the canonical rename was skipped, and no column found
\* carries the label of the Key
ShapeMismatch(f) ==
    /\ f.ds \in WithExpected /\ f.input.readable
    /\ IF f.ds = "major" THEN Len(FoundLabels(f)) # Len(ExpectedOf(f.ds))
                         ELSE Len(FoundLabels(f)) < Len(ExpectedOf(f.ds))
    /\ \A j \in DOMAIN FoundLabels(f) : FoundLabels(f)[j] # KeyName(f.ds)

\* C12 as stated: after a header shape mismatch the pipeline ends with an
\* empty cleaned table and neither raises nor reports an error.
C12_MismatchIsSilent ==
    ShapeMismatch(frame) =>
        /\ IsEmpty(frame.clean)
        /\ ~frame.err /\ ~frame.raw_err /\ ~frame.uncaught

\* C12: after a header shape mismatch the lookup of the Key column raises
\* inside the try of the pipeline: no cleaned table is shown, the error is
\* reported on the page, and nothing is raised out of the display_* call.
C12_MismatchIsReported ==
    ShapeMismatch(frame) =>
        /\ IsEmpty(frame.clean) /\ ~frame.shown
        /\ frame.err
        /\ ~frame.uncaught /\ pc = frame.ds

\* a MajorCountry sheet whose columns are fewer than expected and none of
\* which is labelled YEAR has been processed
C12_Witness ==
    /\ ShapeMismatch(frame) /\ frame.ds = "major"
    /\ FoundLabels(frame) # <<>>
    /\ frame.err

-----------------------------------------------------------------------------
\* the row of the map table that came from a row of the cleaned table
MapRowsOf(f, row) == SelectSeq(f.viz.rows, LAMBDA v : v.ix = row.ix)

\* C13: in display_country_data the resolution of the country codes never
\* raises; the table for the map holds exactly the rows of the cleaned table
\* whose name resolves, each with the cells of the cleaned row and its code,
\* and the cleaned table shown before holds a row for every name of the
\* sheet that is not missing and not denylisted, resolved or not.
C13_UnresolvedOnlyLeavesMap ==
    (Cleaned(frame) /\ frame.ds = "country") =>
        /\ frame.has_viz /\ ~frame.err /\ ~frame.uncaught
        /\ \A r \in DOMAIN frame.clean.rows :
              LET row == frame.clean.rows[r]
                  code == country_to_iso3(row.c[KeyPos(frame)])
              IN  IF IsNa(code) THEN MapRowsOf(frame, row) = <<>>
                  ELSE MapRowsOf(frame, row) = <<Row(row.ix, Append(row.c, code))>>
        /\ \A v \in DOMAIN frame.viz.rows :
              \E r \in DOMAIN frame.clean.rows : frame.clean.rows[r].ix = frame.viz.rows[v].ix
        /\ ColumnsKept(frame) =>
              \A q \in DOMAIN frame.input.table.rows :
                  LET raw == frame.input.table.rows[q]
                  IN  (NotNa(raw.c[1]) /\ ~HoldsAny(RawKeyText(raw), CountryDenylist))
                          => \E r \in DOMAIN frame.clean.rows :
                                 KeyText(frame, frame.clean.rows[r]) = RawKeyText(raw)

\* the Countries sheet holds a name that resolves and one that does not: both
\* are in the cleaned table, only the first is in the table for the map
C13_Witness ==
    /\ Cleaned(frame) /\ frame.ds = "country" /\ frame.has_viz
    /\ Len(frame.viz.rows) = 1
    /\ \E r \in DOMAIN frame.clean.rows :
          /\ IsNa(country_to_iso3(frame.clean.rows[r].c[KeyPos(frame)]))
          /\ MapRowsOf(frame, frame.clean.rows[r]) = <<>>

-----------------------------------------------------------------------------
\* the number a cell coerces to: the parsed number cut to an integer, 0 for a
\* cell that does not parse
IsCoerced(c) == c.t = "num" /\ c.n % Scale = 0

\* C14: in every pipeline that melts, the value of every long record is a
\* coerced number (0 for an unparsable cell), never the raw cell; in
\* display_civil_data it is the cell of the coerced table shown as cleaned.
C14_LongValueIsCoerced ==
    frame.has_long =>
        /\ \A i \in DOMAIN frame.long : IsCoerced(frame.long[i].value)
        /\ frame.ds = "civil" =>
              \A i \in DOMAIN frame.long : \E r \in DOMAIN frame.clean.rows :
                  /\ frame.clean.rows[r].ix = frame.long[i].ix
                  /\ frame.long[i].value
                        = frame.clean.rows[r].c[ColIdx(frame.clean, frame.long[i].var)]

-----------------------------------------------------------------------------
\* the column a pipeline adds to the frame it showed as cleaned, if any
TagOf(ds) ==
    IF ds = "occu" THEN <<Txt(S_CATEGORY)>>
    ELSE IF ds = "country" THEN <<Txt(S_ISO3)>>
    ELSE <<>>

\* C15 as stated: when a display_* call ends, the frame it showed as cleaned
\* holds the rows, columns and cells it was shown with.
C15_CleanedTableUnchanged == Cleaned(frame) => frame.df = frame.clean

\* C15: the steps after the cleaned table is shown leave its rows and the
\* cells of its columns as shown; display_occu_data and display_country_data
\* add one column to the frame itself (CATEGORY, ISO3), the other pipelines
\* leave it as shown and work on frames derived from it.
C15_OnlyTagColumnAdded ==
    Cleaned(frame) =>
        /\ frame.df.cols = frame.clean.cols \o TagOf(frame.ds)
        /\ Len(frame.df.rows) = Len(frame.clean.rows)
        /\ \A r \in DOMAIN frame.clean.rows :
              /\ frame.df.rows[r].ix = frame.clean.rows[r].ix
              /\ SubSeq(frame.df.rows[r].c, 1, Len(frame.clean.cols)) = frame.clean.rows[r].c
              /\ Len(frame.df.rows[r].c) = Len(frame.df.cols)

\* an Occupation sheet was shown with a listed group and an unlisted label;
\* the frame that was shown ends with the CATEGORY column, empty for the second
C15_Witness ==
    /\ Cleaned(frame) /\ frame.ds = "occu"
    /\ Len(frame.clean.rows) = 2
    /\ frame.df.cols = Append(frame.clean.cols, Txt(S_CATEGORY))
    /\ frame.df.rows[1].c[Len(frame.df.cols)] = Txt(S_Unemployed)
    /\ IsNa(frame.df.rows[2].c[Len(frame.df.cols)])

-----------------------------------------------------------------------------
\* the sheet is given the REGION visualization (line 919)
HandledAsRegion(f) == f.ds = "place" /\ StrUpper(f.sheet) = S_REGION

\* the rows of a table whose Key begins with "Region", in any case
RegionRows(t) == SelectSeq(t.rows, LAMBDA row : IsRegionLabel(row.c[1]))

\* what clean_sheet returns for the sheet when no Region row is removed
CleanedKeepingRegion(f) ==
    SheetFinal(SheetNumeric(SheetKeyed(S_REGION, SheetLabelled(f.input.table))))

\* C16: the cleaned table of the sheet that is given the REGION visualization
\* holds every row whose Key begins with "Region" that the other steps of
\* clean_sheet keep; the cleaned table of every other sheet holds no row whose
\* Key begins with "Region", in any case.
C16_RegionRowsKeptOnlyOnRegionSheet ==
    (frame.ds = "place" /\ frame.shown) =>
        IF HandledAsRegion(frame)
        THEN RegionRows(frame.clean) = RegionRows(CleanedKeepingRegion(frame))
        ELSE RegionRows(frame.clean) = <<>>

-----------------------------------------------------------------------------
\* the cell is a whole number
IsWhole(c) == c.t = "num" /\ c.n % Scale = 0

\* the cell is the number of the raw cell cut toward zero, 0 if it has none
IsCutOf(c, raw) ==
    LET p == FillNa(ToNumeric(raw))
    IN  /\ IsWhole(c)
        /\ p.n >= 0 => (c.n <= p.n /\ p.n < c.n + Scale)
        /\ p.n < 0 => (c.n >= p.n /\ p.n > c.n - Scale)

\* the cell of the workbook a cell of the cleaned table was read from is known
Traced(f, j) == ColumnsKept(f) /\ j <= Len(f.input.table.cols)

CastToInt == {"country", "major", "occu", "civil", "educ", "place"}

-----------------------------------------------------------------------------
\* the sheets whose chart ranks the rows by a derived Total
Ranked(f) ==
    f.ds = "place" /\ f.shown /\ StrUpper(f.sheet) \in {S_PROVINCE, S_MUNICIPALITY}

\* the sum of the cells of a row at every position but those in skip
SumBut(cells, skip) ==
    SumAt(cells, Positions(Len(cells), LAMBDA j : j \notin skip))

\* C18: in the AllCountries table Total_Emigrants is, in every row, the sum
\* of the coerced cells of every column but COUNTRY, and the other cells are
\* the coerced cells of the sheet; in the PROVINCE and MUNICIPALITY tables
\* Total is, in every row that remains, the sum of the cells of every column
\* of the cleaned sheet but the first, and the row keeps the cells of its
\* other columns.
C18_TotalIsRowSum ==
    /\ (Cleaned(frame) /\ frame.ds = "country") =>
          LET k == KeyPos(frame)
              t == Len(frame.clean.cols)
          IN  /\ frame.clean.cols[t] = Txt(S_Total_Emigrants)
              /\ \A r \in DOMAIN frame.clean.rows :
                    LET row == frame.clean.rows[r]
                    IN  /\ row.c[t] = Num(SumBut(row.c, {k, t}))
                        /\ ColumnsKept(frame) =>
                              /\ t = Len(frame.input.table.cols) + 1
                              /\ \A j \in 1..(t - 1) :
                                    j # k => row.c[j] = CoerceInt(RawRow(frame, row).c[j])
    /\ Ranked(frame) =>
          LET n == Len(frame.clean.cols)
              t == ColIdx(frame.viz, Txt(S_Total))
          IN  /\ frame.has_viz
              /\ frame.viz.cols = IF HasCol(frame.clean, Txt(S_Total)) THEN frame.clean.cols
                                  ELSE Append(frame.clean.cols, Txt(S_Total))
              /\ \A v \in DOMAIN frame.viz.rows :
                    \E r \in DOMAIN frame.clean.rows :
                        LET row == frame.clean.rows[r]
                            out == frame.viz.rows[v]
                        IN  /\ out.ix = row.ix
                            /\ \A j \in 1..n : j # t => out.c[j] = row.c[j]
                            /\ out.c[t] = Num(SumBut(row.c, {1}))

\* a PROVINCE sheet with the columns 1989 and Total_ holding 7 and 7 is ranked
\* by a Total of 14
C18_Witness ==
    /\ Ranked(frame) /\ frame.has_viz /\ StrUpper(frame.sheet) = S_PROVINCE
    /\ Len(frame.clean.cols) = 3 /\ Len(frame.viz.cols) = 4
    /\ frame.viz.rows # <<>>
    /\ frame.viz.rows[1].c = <<Txt(LIT_Cebu), IntCell(7), IntCell(7), IntCell(14)>>

-----------------------------------------------------------------------------
\* C19: every row of the table clean_sheet returns has a non-zero sum over its
\* number columns.
C19_EveryRowHasNonZeroSum ==
    (frame.ds = "place" /\ frame.shown) =>
        \A r \in DOMAIN frame.clean.rows : SumBut(frame.clean.rows[r].c, {1}) # 0

=============================================================================
